---- MODULE Spec2Model ----
(***************************************************************************)
(* Random over-sampling (imblearn/over_sampling) and the keras balanced     *)
(* batch generator (imblearn/keras/_generator.py) as state machines.        *)
(*                                                                           *)
(* Feature values are numbers of the form  v + pert , where v is an integer *)
(* and pert describes the smoothed-bootstrap perturbation                    *)
(*     z * shrinkage * (4 / ((n_features+2) * n_samples))^(1/(n_features+4)) *)
(*       * sqrt(var) / m                                                     *)
(* by the tuple <<z, shrinkage, n_samples, n_features, var, m>>; the        *)
(* perturbation is the all-zero tuple exactly when the product is zero.     *)
(* The numpy random source is a small multiplicative congruential generator:*)
(* what matters is that it is a deterministic function of its state.        *)
(***************************************************************************)
EXTENDS Integers, Sequences, FiniteSets, TLC

\* ---- bounds of the model ----
MaxRows == 3
MaxNew == 2
MaxSeed == 0
MaxCalls == 2
MaxGenRows == 3
MaxSel == 3
MaxBatch == 2

Classes == {0, 1}
None == -1
NotFitted == <<-1>>

VARIABLES X, y, sampling_strategy_, random_state, smoothed_bootstrap,
          shrinkage, shrinkage_, sample_indices_, X_resampled, y_resampled,
          outcome, last_call, np_random, n_draws, calls, prev,
          sample_weight, sampler, batch_size, sparse, storage, indices_,
          gen, built, ret, under, last_ok

ros_vars == <<X, y, sampling_strategy_, random_state, smoothed_bootstrap,
              shrinkage, shrinkage_, sample_indices_, X_resampled, y_resampled,
              outcome, last_call, np_random, n_draws, calls, prev>>

\* the fields of a BalancedBatchGenerator, what its constructor built, and what
\* the last __len__ / __getitem__ returned
gen_vars == <<sample_weight, sampler, batch_size, sparse, storage, indices_,
              gen, built, ret>>

\* the fitted attributes of a BaseUnderSampler / BaseCleaningSampler instance, and the
\* arguments of the most recent call that succeeded on each instance
base_vars == <<under, last_ok>>

vars == <<ros_vars, gen_vars, base_vars>>

\* ---- helpers on sequences ----
Range(s) == {s[i] : i \in DOMAIN s}

RECURSIVE SumSeq(_)
SumSeq(s) == IF s = <<>> THEN 0 ELSE Head(s) + SumSeq(Tail(s))

Count(s, v) == Cardinality({i \in DOMAIN s : s[i] = v})

\* ---- numbers with a symbolic perturbation ----
ZeroPert == <<0, 0, 0, 0, 0, 0>>
Exact(v) == [v |-> v, pert |-> ZeroPert]

\* a feature value that is a string (v names the string); X may hold object data
StrPert == <<-1, -1, -1, -1, -1, -1>>
Str(v) == [v |-> v, pert |-> StrPert]
HasStrings(A) == \E i \in DOMAIN A : \E j \in DOMAIN A[i] : A[i][j].pert = StrPert

\* ---- the random source ----
\* numpy.random.RandomState(seed): a fresh generator whose state is a function of the seed
RandomState(seed) == [s |-> (seed % 30) + 1, n |-> 0, global |-> FALSE]

check_random_state_global(seed) == [s |-> np_random, n |-> 0, global |-> TRUE]

\* sklearn.utils.check_random_state: None is the numpy global generator, an int a fresh one
check_random_state(seed) ==
    IF seed = None THEN [s |-> np_random, n |-> 0, global |-> TRUE]
    ELSE RandomState(seed)

RngNext(rng) == [rng EXCEPT !.s = (rng.s * 3) % 31, !.n = rng.n + 1]

\* one bounded integer draw in 0 .. high-1
RngInt(rng, high) == RngNext(rng).s % high

\* one standard-normal draw (never exactly zero)
RngNormal(rng) == <<-2, -1, 1, 2>>[(RngNext(rng).s % 4) + 1]

\* np.flatnonzero(y == class_sample): the ascending row indices (0-based) of the class
flatnonzero_all(labels, class_sample, i) == [k \in 1..Len(labels) |-> k - 1]

RECURSIVE flatnonzero(_, _, _)
flatnonzero(labels, class_sample, i) ==
    IF i > Len(labels) THEN <<>>
    ELSE IF labels[i] = class_sample
         THEN <<i - 1>> \o flatnonzero(labels, class_sample, i + 1)
         ELSE flatnonzero(labels, class_sample, i + 1)

\* random_state.choice(a, size=k, replace=True): k draws, each an element of a
RECURSIVE choice(_, _, _)
choice(rng, a, k) ==
    IF k = 0 THEN [rng |-> rng, out |-> <<>>]
    ELSE LET rest == choice(RngNext(rng), a, k - 1)
         IN [rng |-> rest.rng, out |-> <<a[RngInt(rng, Len(a)) + 1]>> \o rest.out]

\* _safe_indexing(A, indices): the rows of A at the (0-based) indices, in order
_safe_indexing(A, indices) == [i \in 1..Len(indices) |-> A[indices[i] + 1]]

\* ---- smoothed bootstrap ----
\* m^2 times the population variance of feature j over the rows at the given indices
\* (np.std(X[target_class_indices, :], axis=0) is its square root divided by m)
VarNum(A, indices, j) ==
    LET m == Len(indices)
        vals == [i \in 1..m |-> A[indices[i] + 1][j].v]
    IN m * SumSeq([i \in 1..m |-> vals[i] * vals[i]]) - SumSeq(vals) * SumSeq(vals)

\* random_state.randn(...): k standard-normal draws, in row-major order
RECURSIVE randn(_, _)
randn(rng, k) ==
    IF k = 0 THEN [rng |-> rng, out |-> <<>>]
    ELSE LET rest == randn(RngNext(rng), k - 1)
         IN [rng |-> rest.rng, out |-> <<RngNormal(rng)>> \o rest.out]

\* one entry of X_new.dot(smoothing_matrix) + X[bootstrap_indices, :]
Smoothed(cell, z, shr, n_samples, n_features, var, m) ==
    IF z * shr * var = 0 THEN cell
    ELSE [v |-> cell.v, pert |-> <<z, shr, n_samples, n_features, var, m>>]

\* ---- RandomOverSampler._fit_resample, one iteration of the loop over sampling_strategy_ ----
OverSampleClass_noappend(acc, class_sample, num_samples, shr) ==
    LET target_class_indices == flatnonzero(y, class_sample, 1)
        drawn == choice(acc.rng, target_class_indices, num_samples)
    IN [rng |-> drawn.rng,
        sample_indices |-> acc.sample_indices,
        X_resampled |-> acc.X_resampled \o _safe_indexing(X, drawn.out),
        y_resampled |-> acc.y_resampled \o _safe_indexing(y, drawn.out),
        error |-> "none"]

OverSampleClass(acc, class_sample, num_samples, shr) ==
    LET target_class_indices == flatnonzero(y, class_sample, 1)
        drawn == choice(acc.rng, target_class_indices, num_samples)
        bootstrap_indices == drawn.out
        n_samples == Len(X)
        n_features == Len(X[1])
        noise == randn(drawn.rng, num_samples * n_features)
        X_new == [r \in 1..num_samples |->
                    [j \in 1..n_features |->
                        Smoothed(X[bootstrap_indices[r] + 1][j],
                                 noise.out[(r - 1) * n_features + j],
                                 shr[class_sample], n_samples, n_features,
                                 VarNum(X, target_class_indices, j),
                                 Len(target_class_indices))]]
    IN IF smoothed_bootstrap /\ HasStrings(X)
       THEN \* np.std of string data raises TypeError, after the draw and the append
            [rng |-> drawn.rng,
             sample_indices |-> acc.sample_indices \o bootstrap_indices,
             X_resampled |-> acc.X_resampled,
             y_resampled |-> acc.y_resampled,
             error |-> "TypeError"]
       ELSE IF smoothed_bootstrap
       THEN [rng |-> noise.rng,
             sample_indices |-> acc.sample_indices \o bootstrap_indices,
             X_resampled |-> acc.X_resampled \o X_new,
             y_resampled |-> acc.y_resampled \o _safe_indexing(y, bootstrap_indices),
             error |-> "none"]
       ELSE [rng |-> drawn.rng,
             sample_indices |-> acc.sample_indices \o bootstrap_indices,
             X_resampled |-> acc.X_resampled \o _safe_indexing(X, bootstrap_indices),
             y_resampled |-> acc.y_resampled \o _safe_indexing(y, bootstrap_indices),
             error |-> "none"]

\* the loop over sampling_strategy_.items(), in the mapping's iteration order
RECURSIVE OverSampleLoop(_, _, _)
OverSampleLoop(acc, i, shr) ==
    IF i > Len(sampling_strategy_) \/ acc.error # "none" THEN acc
    ELSE OverSampleLoop(
            OverSampleClass(acc, sampling_strategy_[i][1], sampling_strategy_[i][2], shr),
            i + 1, shr)

StrategyKeys == {sampling_strategy_[i][1] : i \in DOMAIN sampling_strategy_}

\* self.sampling_strategy_.keys() - self.shrinkage.keys()
missing_shrinkage_keys == StrategyKeys \ DOMAIN shrinkage.map

\* the value self.shrinkage_ has when the loop starts
ShrinkageAtLoop ==
    IF smoothed_bootstrap
    THEN IF shrinkage.kind = "Real"
         THEN [klass \in StrategyKeys |-> shrinkage.value]
         ELSE shrinkage.map
    ELSE shrinkage_

\* sample_indices = range(X.shape[0])
InitialIndices_empty == <<>>

InitialIndices_from_one == [i \in 1..Len(X) |-> i]

InitialIndices == [i \in 1..Len(X) |-> i - 1]

Snapshot ==
    [call |-> last_call, outcome |-> outcome, X_resampled |-> X_resampled,
     y_resampled |-> y_resampled, sample_indices_ |-> sample_indices_]

\* the ValueError for missing shrinkage keys, raised before self.shrinkage_ is assigned
RaiseAfterAssign ==
    /\ outcome' = "ValueError"
    /\ X_resampled' = <<>>
    /\ y_resampled' = <<>>
    /\ n_draws' = 0
    /\ shrinkage_' = shrinkage.map
    /\ UNCHANGED <<sample_indices_, np_random, last_ok>>

RaiseMissingShrinkage ==
    /\ outcome' = "ValueError"
    /\ X_resampled' = <<>>
    /\ y_resampled' = <<>>
    /\ n_draws' = 0
    /\ UNCHANGED <<shrinkage_, sample_indices_, np_random, last_ok>>

\* RandomOverSampler._fit_resample(X, y)
FitResample ==
    /\ calls < MaxCalls
    /\ calls' = calls + 1
    /\ prev' = Snapshot
    /\ last_call' = "_fit_resample"
    /\ LET random_state_0 == check_random_state(random_state)
       IN IF smoothed_bootstrap /\ shrinkage.kind # "Real" /\ missing_shrinkage_keys # {}
          THEN RaiseMissingShrinkage
          ELSE LET start == [rng |-> random_state_0,
                             sample_indices |-> InitialIndices,
                             X_resampled |-> X,
                             y_resampled |-> y,
                             error |-> "none"]
               IN \E done \in {OverSampleLoop(start, 1, ShrinkageAtLoop)} :
                  /\ shrinkage_' = ShrinkageAtLoop
                  /\ n_draws' = done.rng.n
                  /\ np_random' = IF done.rng.global THEN done.rng.s ELSE np_random
                  /\ IF done.error # "none"
                     THEN \* the exception leaves the loop before line 176
                          /\ outcome' = done.error
                          /\ X_resampled' = <<>>
                          /\ y_resampled' = <<>>
                          /\ UNCHANGED <<sample_indices_, last_ok>>
                     ELSE /\ outcome' = "ok"
                          /\ sample_indices_' = done.sample_indices
                          /\ X_resampled' = done.X_resampled
                          /\ y_resampled' = done.y_resampled
                          /\ last_ok' = [last_ok EXCEPT !.ros =
                                [set |-> TRUE, X |-> X, y |-> y,
                                 strategy |-> sampling_strategy_]]
    /\ UNCHANGED <<X, y, sampling_strategy_, random_state, smoothed_bootstrap, shrinkage>>
    /\ UNCHANGED <<gen_vars, under>>

\* ---- the earlier RandomOverSampler._sample (random_over_sampler.py) ----
ratio_ == sampling_strategy_

\* collections.Counter(y)[class_sample]
target_stats(class_sample) == Count(y, class_sample)

\* random_state.randint(low=0, high=h, size=k)
RECURSIVE randint(_, _, _)
randint(rng, high, k) ==
    IF k = 0 THEN [rng |-> rng, out |-> <<>>]
    ELSE LET rest == randint(RngNext(rng), high, k - 1)
         IN [rng |-> rest.rng, out |-> <<RngInt(rng, high)>> \o rest.out]

\* A[y == class_sample]: the rows of A whose label is class_sample, in order
MaskClass(A, class_sample) == _safe_indexing(A, flatnonzero(y, class_sample, 1))

RECURSIVE SampleLoop(_, _)
SampleLoop(acc, i) ==
    IF i > Len(ratio_) THEN acc
    ELSE LET class_sample == ratio_[i][1]
             num_samples == ratio_[i][2]
             drawn == randint(acc.rng, target_stats(class_sample), num_samples)
             index_samples == drawn.out
         IN SampleLoop(
                [rng |-> drawn.rng,
                 X_resampled |-> acc.X_resampled
                                 \o _safe_indexing(MaskClass(X, class_sample), index_samples),
                 y_resampled |-> acc.y_resampled
                                 \o _safe_indexing(MaskClass(y, class_sample), index_samples)],
                i + 1)

\* RandomOverSampler._sample(X, y)
Sample ==
    /\ calls < MaxCalls
    /\ calls' = calls + 1
    /\ prev' = Snapshot
    /\ last_call' = "_sample"
    /\ LET done == SampleLoop([rng |-> check_random_state(random_state),
                               X_resampled |-> X, y_resampled |-> y], 1)
       IN /\ outcome' = "ok"
          /\ X_resampled' = done.X_resampled
          /\ y_resampled' = done.y_resampled
          /\ n_draws' = done.rng.n
          /\ np_random' = IF done.rng.global THEN done.rng.s ELSE np_random
    /\ UNCHANGED <<X, y, sampling_strategy_, random_state, smoothed_bootstrap,
                   shrinkage, shrinkage_, sample_indices_>>
    /\ UNCHANGED <<gen_vars, base_vars>>

\* ---- inputs ----
\* the feature matrix with n rows: two features, the first distinct in every row,
\* the second constant
XChoices(n) == { [i \in 1..n |-> <<Exact(i), Exact(1)>>] }

\* resolved strategies: an ordered mapping class -> number of rows to add, every
\* class one of the observed labels
Strategies(labels) ==
    LET present == Range(labels)
    IN {<<>>}
       \cup {<<(<<c, k>>)>> : c \in present, k \in 0..MaxNew}
       \cup {<<(<<c, k>>), (<<d, l>>)>> :
                <<c, k, d, l>> \in {q \in present \X (0..MaxNew) \X present \X (0..MaxNew) :
                                       q[1] # q[3]}}

Real(v) == [kind |-> "Real", value |-> v, map |-> <<>>]
Dict(keys) == [kind |-> "dict", value |-> 0, map |-> [c \in keys |-> c + 1]]

\* (smoothed_bootstrap, shrinkage) as given to the constructor
Configs ==
    {<<FALSE, Real(1)>>, <<FALSE, Dict({})>>, <<TRUE, Real(1)>>}
    \cup {<<TRUE, Dict(keys)>> : keys \in {{0}, {0, 1}, {0, 1, 2}}}

\* attributes an instance may carry from an earlier fit on other data
EarlierFits == {<<NotFitted, NotFitted>>, <<(<<0, 0>>), [c \in {0} |-> 1]>>}

\* states of the numpy global generator when the first call starts
GlobalStates == {5, 11}

NoWeight == [given |-> FALSE, data |-> <<>>]
NoSampler == [given |-> FALSE, return_indices |-> FALSE, selection |-> <<>>]
NoReturn == [call |-> "none", index |-> -1, outcome |-> "none", rows |-> <<>>, value |-> <<>>]
NotBuilt == [selected |-> NotFitted, indices_ |-> NotFitted]

NotFittedRatio == <<(<<-1, -1>>)>>
NoCall == [set |-> FALSE, X |-> <<>>, y |-> <<>>, strategy |-> <<>>]
NoCalls == [ros |-> NoCall, base |-> NoCall]
AutoRatio == [kind |-> "auto", map |-> <<>>]

\* a base sampler on which fit was never called
FreshBase(sampling_type, ratio) ==
    [sampling_type |-> sampling_type, ratio |-> ratio, X_hash_ |-> -1, y_hash_ |-> -1,
     ratio_ |-> NotFittedRatio, outcome |-> "none"]

BaseIdle == under = FreshBase("under-sampling", AutoRatio) /\ last_ok = NoCalls

\* no batch generator exists
GenIdle ==
    /\ sample_weight = NoWeight
    /\ sampler = NoSampler
    /\ batch_size = 1
    /\ sparse = FALSE
    /\ storage = [X |-> FALSE, y |-> FALSE, sample_weight |-> FALSE]
    /\ indices_ = NotFitted
    /\ gen = "none"
    /\ built = NotBuilt
    /\ ret = NoReturn

RosInit ==
    /\ \E n \in 1..MaxRows :
        /\ X \in XChoices(n)
        /\ y \in [1..n -> Classes]
    /\ sampling_strategy_ \in Strategies(y)
    /\ random_state \in {None} \cup 0..MaxSeed
    /\ \E c \in Configs : smoothed_bootstrap = c[1] /\ shrinkage = c[2]
    /\ \E e \in EarlierFits : sample_indices_ = e[1] /\ shrinkage_ = e[2]
    /\ np_random \in (IF random_state = None THEN GlobalStates ELSE {5})
    /\ X_resampled = <<>>
    /\ y_resampled = <<>>
    /\ outcome = "none"
    /\ last_call = "none"
    /\ n_draws = 0
    /\ calls = 0
    /\ prev = Snapshot
    /\ GenIdle
    /\ BaseIdle

RosNext == FitResample \/ Sample

Spec == RosInit /\ [][RosNext]_vars

\* ---- BalancedBatchGenerator (keras/_generator.py) ----
Swap_copy(s, i, j) == [s EXCEPT ![i] = s[j]]

Swap(s, i, j) == [s EXCEPT ![i] = s[j], ![j] = s[i]]

\* random_state.shuffle(s): an in-place Fisher-Yates pass from the last position down
RECURSIVE shuffle(_, _, _)
shuffle(rng, s, i) ==
    IF i <= 1 THEN [rng |-> rng, out |-> s]
    ELSE shuffle(RngNext(rng), Swap(s, i, RngInt(rng, i) + 1), i - 1)

\* the smallest class count among the observed labels
MinorityCount ==
    LET counts == {Count(y, c) : c \in Range(y)}
    IN CHOOSE m \in counts : \A k \in counts : m <= k

\* RandomUnderSampler(return_indices=True).fit_sample(X, y), default strategy: every
\* class is cut to the minority count by a draw without replacement among its rows,
\* classes in ascending order, the kept indices packed by class
RECURSIVE RandomUnderSampler_fit_sample(_, _)
RandomUnderSampler_fit_sample(acc, c) ==
    IF \A d \in Range(y) : d < c THEN acc
    ELSE IF c \notin Range(y) THEN RandomUnderSampler_fit_sample(acc, c + 1)
    ELSE LET rows == flatnonzero(y, c, 1)
             perm == shuffle(acc.rng, rows, Len(rows))
         IN RandomUnderSampler_fit_sample(
                [rng |-> perm.rng, out |-> acc.out \o SubSeq(perm.out, 1, MinorityCount)],
                c + 1)

\* BalancedBatchGenerator.__init__ -> _sample()
Construct ==
    /\ gen = "new"
    /\ LET random_state_0 == check_random_state(random_state)
       IN IF sampler.given /\ ~sampler.return_indices
          THEN /\ gen' = "ValueError"
               /\ UNCHANGED <<indices_, built, np_random>>
          ELSE LET fitted == IF sampler.given
                             THEN [rng |-> random_state_0, out |-> sampler.selection]
                             ELSE RandomUnderSampler_fit_sample(
                                      [rng |-> random_state_0, out |-> <<>>], 0)
                   shuffled == shuffle(fitted.rng, fitted.out, Len(fitted.out))
               IN /\ gen' = "ready"
                  /\ indices_' = shuffled.out
                  /\ built' = [selected |-> fitted.out, indices_ |-> shuffled.out]
                  /\ np_random' = IF shuffled.rng.global THEN shuffled.rng.s ELSE np_random
    /\ UNCHANGED <<X, y, random_state, sample_weight, sampler, batch_size, sparse,
                   storage, ret>>
    /\ UNCHANGED <<sampling_strategy_, smoothed_bootstrap, shrinkage, shrinkage_,
                   sample_indices_, X_resampled, y_resampled, outcome, last_call,
                   n_draws, calls, prev, under, last_ok>>

\* BalancedBatchGenerator.__len__
len_ceil == (Len(indices_) + batch_size - 1) \div batch_size

__len__ == Len(indices_) \div batch_size

\* ind[index * batch_size : (index + 1) * batch_size], a Python slice (clipped to the array)
Window(ind, index, b) ==
    LET lo == IF index * b < Len(ind) THEN index * b ELSE Len(ind)
        hi == IF (index + 1) * b < Len(ind) THEN (index + 1) * b ELSE Len(ind)
    IN SubSeq(ind, lo + 1, hi)

\* an array slice and its storage; .toarray() makes it dense
Slice(A, window, issparse) == [data |-> _safe_indexing(A, window), sparse |-> issparse]

toarray(a) == [a EXCEPT !.sparse = FALSE]

\* the batch a request returns or the error it raises, for the index order ind
Batch(ind, index) ==
    LET window == Window(ind, index, batch_size)
        X_sliced == Slice(X, window, storage.X)
        X_res == IF X_sliced.sparse /\ ~sparse THEN toarray(X_sliced) ELSE X_sliced
        y_sliced == Slice(y, window, storage.y)
        y_res == IF y_sliced.sparse /\ ~sparse THEN toarray(y_sliced) ELSE y_sliced
        sample_weight_resampled == Slice(sample_weight.data, window, storage.sample_weight)
    IN
          IF sample_weight.given /\ sample_weight_resampled.sparse /\ ~sparse
          THEN \* line 144 reads the local sample_weight, which was never assigned
               [call |-> "__getitem__", index |-> index, outcome |-> "UnboundLocalError",
                rows |-> window, value |-> <<>>]
          ELSE [call |-> "__getitem__", index |-> index, outcome |-> "ok", rows |-> window,
                value |-> IF sample_weight.given
                          THEN <<X_res, y_res, sample_weight_resampled>>
                          ELSE <<X_res, y_res>>]

\* BalancedBatchGenerator.__getitem__(index): what it returns and the value of
\* self.indices_ when it is done
getitem_reshuffling(index) ==
    [indices_ |-> shuffle(check_random_state(random_state), indices_, Len(indices_)).out,
     ret |-> Batch(indices_, index)]

__getitem__(index) == [indices_ |-> indices_, ret |-> Batch(indices_, index)]

GenUnchanged ==
    /\ UNCHANGED <<X, y, random_state, np_random, sample_weight, sampler, batch_size,
                   sparse, storage, gen, built>>
    /\ UNCHANGED <<sampling_strategy_, smoothed_bootstrap, shrinkage, shrinkage_,
                   sample_indices_, X_resampled, y_resampled, outcome, last_call,
                   n_draws, calls, prev, under, last_ok>>

LenCall ==
    /\ gen = "ready"
    /\ ret' = [call |-> "__len__", index |-> -1, outcome |-> "ok", rows |-> <<>>,
               value |-> <<__len__>>]
    /\ UNCHANGED indices_
    /\ GenUnchanged

\* a request for batch index; index = len() is one past the last full batch
GetItem ==
    /\ gen = "ready"
    /\ \E index \in 0..__len__ :
        /\ ret' = __getitem__(index).ret
        /\ indices_' = __getitem__(index).indices_
    /\ GenUnchanged

\* ---- inputs of the generator ----
Selections(n) == UNION {[1..k -> 0..(n - 1)] : k \in 0..MaxSel}

\* no sampler (the default RandomUnderSampler), a sampler without return_indices, or
\* a sampler whose fit_sample returns the given indices
Samplers(n) ==
    {NoSampler, [given |-> TRUE, return_indices |-> FALSE, selection |-> <<>>]}
    \cup {[given |-> TRUE, return_indices |-> TRUE, selection |-> sel] : sel \in Selections(n)}

Weights(n) == [given |-> TRUE, data |-> [i \in 1..n |-> 10 * i]]

\* <<X sparse, y sparse, sample_weight given, sample_weight sparse>>
StorageChoices ==
    {<<xs, ys, FALSE, FALSE>> : xs \in BOOLEAN, ys \in BOOLEAN}
    \cup {<<FALSE, FALSE, TRUE, FALSE>>, <<TRUE, TRUE, TRUE, FALSE>>,
          <<FALSE, FALSE, TRUE, TRUE>>, <<TRUE, TRUE, TRUE, TRUE>>}

GenInit ==
    /\ \E n \in 1..MaxGenRows :
        /\ X \in XChoices(n)
        /\ sampler \in Samplers(n)
        /\ y \in (IF sampler.given THEN {[i \in 1..n |-> i % 2]} ELSE [1..n -> Classes])
        /\ \E st \in StorageChoices :
            /\ storage = [X |-> st[1], y |-> st[2], sample_weight |-> st[4]]
            /\ sample_weight = IF st[3] THEN Weights(n) ELSE NoWeight
    /\ batch_size \in 1..MaxBatch
    /\ sparse \in BOOLEAN
    /\ random_state \in {None} \cup 0..MaxSeed
    /\ np_random \in (IF random_state = None THEN GlobalStates ELSE {5})
    /\ indices_ = NotFitted
    /\ gen = "new"
    /\ built = NotBuilt
    /\ ret = NoReturn
    /\ sampling_strategy_ = <<>>
    /\ smoothed_bootstrap = FALSE
    /\ shrinkage = Real(1)
    /\ shrinkage_ = NotFitted
    /\ sample_indices_ = NotFitted
    /\ X_resampled = <<>>
    /\ y_resampled = <<>>
    /\ outcome = "none"
    /\ last_call = "none"
    /\ n_draws = 0
    /\ calls = 0
    /\ prev = Snapshot
    /\ BaseIdle

GenNext == Construct \/ LenCall \/ GetItem

SpecGen == GenInit /\ [][GenNext]_vars

\* ======================= under-sampling and cleaning bases =======================
\* check_X_y converts X to a numeric array and raises ValueError for string data
check_X_y_ok(A) == ~HasStrings(A)

\* the values of a matrix, row after row
RECURSIVE Flat(_)
Flat(A) ==
    IF A = <<>> THEN <<>>
    ELSE [j \in DOMAIN Head(A) |-> Head(A)[j].v] \o Flat(Tail(A))

\* a digest of a sequence of integers
RECURSIVE Digest(_)
Digest(s) ==
    IF s = <<>> THEN 7
    ELSE (Digest(SubSeq(s, 1, Len(s) - 1)) * 31 + s[Len(s)] + 1) % 1009

\* hash_X_y(X, y): one digest of the features, one of the labels
hash_X_y(A, labels) == <<Digest(Flat(A)), Digest(labels)>>

\* the classes of labels, in increasing order
RECURSIVE SortedClasses(_, _)
SortedClasses(labels, c) ==
    IF c > MaxRows THEN <<>>
    ELSE (IF c \in Range(labels) THEN <<c>> ELSE <<>>) \o SortedClasses(labels, c + 1)

\* the smallest class count of labels
MinCount(labels) ==
    CHOOSE m \in 1..Len(labels) :
        /\ \E c \in Range(labels) : Count(labels, c) = m
        /\ \A c \in Range(labels) : Count(labels, c) >= m

\* the reference class: the first class that has the smallest count
MinorityClass(labels) ==
    CHOOSE c \in Range(labels) :
        /\ Count(labels, c) = MinCount(labels)
        /\ \A d \in Range(labels) : Count(labels, d) = MinCount(labels) => c <= d

\* check_ratio(ratio, y, sampling_type): the number of rows to keep per class. 'auto'
\* brings every class but the reference class to the minority count; a mapping is
\* taken as given and fails when it names a class absent from y or asks for more rows
\* than the class has.
check_ratio(ratio, labels, sampling_type) ==
    IF ratio.kind = "auto"
    THEN LET keys == SelectSeq(SortedClasses(labels, 0),
                               LAMBDA c : c # MinorityClass(labels))
         IN [ok |-> TRUE,
             value |-> [i \in DOMAIN keys |-> <<keys[i], MinCount(labels)>>]]
    ELSE IF \A i \in DOMAIN ratio.map :
                /\ ratio.map[i][1] \in Range(labels)
                /\ ratio.map[i][2] <= Count(labels, ratio.map[i][1])
         THEN [ok |-> TRUE, value |-> ratio.map]
         ELSE [ok |-> FALSE, value |-> <<>>]

\* fit(X, y) of both bases: validate, store the hashes, then resolve and store ratio_
fit(sampling_type) ==
    IF ~check_X_y_ok(X)
    THEN [under |-> [under EXCEPT !.outcome = "ValueError"], ok |-> FALSE]
    ELSE LET h == hash_X_y(X, y)
             hashed == [under EXCEPT !.X_hash_ = h[1], !.y_hash_ = h[2]]
             r == check_ratio(under.ratio, y, sampling_type)
         IN IF r.ok
            THEN [under |-> [hashed EXCEPT !.ratio_ = r.value, !.outcome = "ok"],
                  ok |-> TRUE]
            ELSE [under |-> [hashed EXCEPT !.outcome = "ValueError"], ok |-> FALSE]

\* one call of fit on the instance, with its bookkeeping
FitCall(sampling_type) ==
    /\ calls' = calls + 1
    /\ last_call' = "fit"
    /\ under' = fit(sampling_type).under
    /\ last_ok' = IF fit(sampling_type).ok
                  THEN [last_ok EXCEPT !.base =
                            [set |-> TRUE, X |-> X, y |-> y, strategy |-> <<>>]]
                  ELSE last_ok
    /\ UNCHANGED <<X, y, sampling_strategy_, random_state, smoothed_bootstrap, shrinkage,
                   shrinkage_, sample_indices_, X_resampled, y_resampled, outcome,
                   np_random, n_draws, prev>>
    /\ UNCHANGED gen_vars

BaseUnderSampler_fit ==
    /\ calls < MaxCalls
    /\ under.sampling_type = "under-sampling"
    /\ FitCall("under-sampling")

BaseCleaningSampler_fit ==
    /\ calls < MaxCalls
    /\ under.sampling_type = "clean-sampling"
    /\ FitCall("clean-sampling")

\* the data sets a caller passes to successive calls
FitDatasets ==
    {<<A, labels>> : A \in XChoices(2), labels \in {<<0, 1>>, <<0, 0>>}}
    \cup {<<A, <<0, 0, 1>> >> : A \in XChoices(3)}
    \cup {<< <<(<<Str(1), Exact(1)>>), (<<Str(2), Exact(1)>>)>>, <<0, 1>> >>}

\* the resolved over-sampling strategies used with labels
FitStrategies(labels) == {<<>>} \cup {<<(<<c, 1>>)>> : c \in Range(labels)}

\* the caller prepares other arguments for the next call
NewArguments ==
    /\ calls < MaxCalls
    /\ \E d \in FitDatasets : \E s \in FitStrategies(d[2]) :
        /\ <<d[1], d[2], s>> # <<X, y, sampling_strategy_>>
        /\ X' = d[1]
        /\ y' = d[2]
        /\ sampling_strategy_' = s
    /\ UNCHANGED <<random_state, smoothed_bootstrap, shrinkage, shrinkage_,
                   sample_indices_, X_resampled, y_resampled, outcome, last_call,
                   np_random, n_draws, calls, prev>>
    /\ UNCHANGED <<gen_vars, base_vars>>

FitInit ==
    /\ \E d \in FitDatasets : X = d[1] /\ y = d[2]
    /\ sampling_strategy_ \in FitStrategies(y)
    /\ random_state \in {None} \cup 0..MaxSeed
    /\ \E c \in {<<FALSE, Real(1)>>, <<TRUE, Real(1)>>, <<TRUE, Dict({0, 1})>>} :
        smoothed_bootstrap = c[1] /\ shrinkage = c[2]
    /\ sample_indices_ = NotFitted
    /\ shrinkage_ = NotFitted
    /\ np_random = 5
    /\ X_resampled = <<>>
    /\ y_resampled = <<>>
    /\ outcome = "none"
    /\ last_call = "none"
    /\ n_draws = 0
    /\ calls = 0
    /\ prev = Snapshot
    /\ GenIdle
    /\ \E t \in {"under-sampling", "clean-sampling"} :
       \E r \in {AutoRatio, [kind |-> "dict", map |-> <<(<<1, 1>>)>>]} :
        under = FreshBase(t, r)
    /\ last_ok = NoCalls

FitNext == FitResample \/ BaseUnderSampler_fit \/ BaseCleaningSampler_fit \/ NewArguments

SpecFit == FitInit /\ [][FitNext]_vars

\* ======================= properties of the over-samplers =======================
FitOk == last_call = "_fit_resample" /\ outcome = "ok"
SampleOk == last_call = "_sample" /\ outcome = "ok"

NumNew == SumSeq([i \in DOMAIN sampling_strategy_ |-> sampling_strategy_[i][2]])

\* the strategy entry whose block holds the p-th appended row (p = 1 .. NumNew)
RECURSIVE BlockOf(_, _)
BlockOf(p, i) ==
    IF p <= sampling_strategy_[i][2] THEN i
    ELSE BlockOf(p - sampling_strategy_[i][2], i + 1)

ClassOfNew(p) == sampling_strategy_[BlockOf(p, 1)][1]

\* C1: over-sampling removes no original row: after a successful _fit_resample every
\* original row index 0..n-1 occurs in sample_indices_ at a position where the output
\* features and label are that row's; the earlier _sample keeps every original row too
C1_NoOriginalRowRemoved ==
    /\ FitOk =>
        \A i \in 1..Len(X) :
            \E q \in DOMAIN sample_indices_ :
                /\ sample_indices_[q] = i - 1
                /\ q \in DOMAIN X_resampled /\ X_resampled[q] = X[i]
                /\ q \in DOMAIN y_resampled /\ y_resampled[q] = y[i]
    /\ SampleOk =>
        \A i \in 1..Len(X) :
            \E q \in DOMAIN X_resampled :
                X_resampled[q] = X[i] /\ q \in DOMAIN y_resampled /\ y_resampled[q] = y[i]

C1_Witness == FitOk /\ NumNew > 0 /\ Len(sample_indices_) > Len(X)

\* C2: after a successful _fit_resample the features, the labels and sample_indices_
\* have one length, every output label is the label of the row sample_indices_ names,
\* and without smoothed bootstrap every output feature row is that row's features
C2_RowAligned ==
    FitOk =>
        /\ Len(X_resampled) = Len(y_resampled)
        /\ Len(sample_indices_) = Len(y_resampled)
        /\ \A q \in DOMAIN sample_indices_ :
            /\ sample_indices_[q] \in 0..(Len(X) - 1)
            /\ y_resampled[q] = y[sample_indices_[q] + 1]
            /\ ~smoothed_bootstrap => X_resampled[q] = X[sample_indices_[q] + 1]

C2_Witness ==
    /\ FitOk /\ ~smoothed_bootstrap /\ NumNew > 1
    /\ X_resampled[Len(X) + 1] # X_resampled[Len(X) + 2]

\* C3: for each class c with delta k in the strategy exactly k rows are appended, each
\* of them labelled c and carrying the features of an input row labelled c; the output
\* count of c is its input count plus k, an untargeted class keeps its count, and when
\* every delta is (majority count - count of c) every targeted class ends with the
\* majority count.  Both samplers.
MajorityCount ==
    LET counts == {Count(y, c) : c \in Range(y)}
    IN CHOOSE m \in counts : \A k \in counts : k <= m

Equalizes ==
    \A i \in DOMAIN sampling_strategy_ :
        sampling_strategy_[i][2] = MajorityCount - Count(y, sampling_strategy_[i][1])

C3_DonorsOfTheClass ==
    (FitOk \/ SampleOk) =>
        /\ Len(y_resampled) = Len(y) + NumNew
        /\ Len(X_resampled) = Len(X) + NumNew
        /\ \A p \in 1..NumNew :
            /\ y_resampled[Len(y) + p] = ClassOfNew(p)
            /\ \E d \in DOMAIN y :
                /\ y[d] = ClassOfNew(p)
                /\ \A f \in DOMAIN X[d] : X_resampled[Len(X) + p][f].v = X[d][f].v
                /\ (~smoothed_bootstrap \/ SampleOk) => X_resampled[Len(X) + p] = X[d]
        /\ \A i \in DOMAIN sampling_strategy_ :
            Count(y_resampled, sampling_strategy_[i][1])
                = Count(y, sampling_strategy_[i][1]) + sampling_strategy_[i][2]
        /\ \A c \in Classes \ StrategyKeys : Count(y_resampled, c) = Count(y, c)
        /\ Equalizes =>
            \A c \in StrategyKeys : Count(y_resampled, c) = MajorityCount

C3_Witness ==
    /\ SampleOk /\ prev.call = "_fit_resample" /\ prev.outcome = "ok"
    /\ Equalizes /\ NumNew > 0 /\ Cardinality(Range(y)) > 1
    /\ \A c \in StrategyKeys : Count(y_resampled, c) = MajorityCount

\* C4 as claimed: sample_indices_ has one entry per added row (its length is the sum of
\* the deltas) and every entry is the index of a row of a targeted class
C4_AsClaimed ==
    FitOk =>
        /\ Len(sample_indices_) = NumNew
        /\ \A q \in DOMAIN sample_indices_ : y[sample_indices_[q] + 1] \in StrategyKeys

\* C4, amended: sample_indices_ has one entry per output row, n + the sum of the deltas;
\* its first n entries are 0..n-1 in order, and each of the remaining entries is the
\* index of an original row of the targeted class whose block it stands in
C4_OneEntryPerOutputRow ==
    FitOk =>
        /\ Len(sample_indices_) = Len(X) + NumNew
        /\ \A i \in 1..Len(X) : sample_indices_[i] = i - 1
        /\ \A p \in 1..NumNew :
            /\ sample_indices_[Len(X) + p] \in 0..(Len(X) - 1)
            /\ y[sample_indices_[Len(X) + p] + 1] = ClassOfNew(p)
            /\ ClassOfNew(p) \in StrategyKeys

C4_Witness ==
    /\ FitOk /\ NumNew > 0 /\ Len(sample_indices_) = Len(X) + NumNew
    /\ \E c \in Range(y) : c \notin StrategyKeys

\* C5: with an integer seed, two _fit_resample calls on the same inputs return the same
\* features, labels and sample_indices_; the draws all come from the one generator the
\* seed makes, consumed in the strategy's iteration order: the p-th appended index is
\* picked by the p-th value of the seed's stream among the rows of the p-th row's class
RECURSIVE Stream(_, _)
Stream(seed, p) == IF p = 0 THEN (seed % 30) + 1 ELSE (Stream(seed, p - 1) * 3) % 31

C5_Determinism ==
    (FitOk /\ random_state # None) =>
        /\ (prev.call = "_fit_resample" /\ prev.outcome = "ok") =>
            /\ X_resampled = prev.X_resampled
            /\ y_resampled = prev.y_resampled
            /\ sample_indices_ = prev.sample_indices_
        /\ n_draws = NumNew * (IF smoothed_bootstrap THEN 1 + Len(X[1]) ELSE 1)
        /\ ~smoothed_bootstrap =>
            \A p \in 1..NumNew :
                LET rows == flatnonzero(y, ClassOfNew(p), 1)
                IN sample_indices_[Len(X) + p] = rows[(Stream(random_state, p) % Len(rows)) + 1]

C5_Witness ==
    /\ FitOk /\ random_state # None /\ calls = 2
    /\ prev.call = "_fit_resample" /\ prev.outcome = "ok"
    /\ Len(sampling_strategy_) = 2 /\ sampling_strategy_[1][2] > 0 /\ sampling_strategy_[2][2] > 0
    /\ sample_indices_ = prev.sample_indices_

\* C6: with smoothed_bootstrap on and shrinkage a mapping, a _fit_resample call whose
\* strategy names a class the mapping lacks ends in ValueError with no draw made and
\* sample_indices_, shrinkage_ and the global generator as before the call; a mapping
\* that covers the strategy's classes is accepted and becomes shrinkage_ as given
IsFitResampleStep == calls' = calls + 1 /\ last_call' = "_fit_resample"

C6_MissingShrinkageFailsFirst ==
    [][(IsFitResampleStep /\ smoothed_bootstrap /\ shrinkage.kind = "dict") =>
         IF StrategyKeys \subseteq DOMAIN shrinkage.map
         THEN /\ outcome' = "ok"
              /\ shrinkage_' = shrinkage.map
              /\ DOMAIN shrinkage_' = DOMAIN shrinkage.map
         ELSE /\ outcome' = "ValueError"
              /\ n_draws' = 0
              /\ sample_indices_' = sample_indices_
              /\ shrinkage_' = shrinkage_
              /\ np_random' = np_random
              /\ X_resampled' = <<>>]_vars

C6_Witness ==
    /\ last_call = "_fit_resample" /\ outcome = "ValueError"
    /\ smoothed_bootstrap /\ shrinkage.kind = "dict"
    /\ StrategyKeys \ DOMAIN shrinkage.map # {}
    /\ sample_indices_ = <<0, 0>>
    /\ NumNew > 0

\* ======================= properties of the batch generator =======================
NoRepeats(s) == \A i, j \in DOMAIN s : i # j => s[i] # s[j]

BatchRows(i) == Range(Window(indices_, i, batch_size))

\* C7: len() is floor(n / b) for n selected indices and batch size b; every batch
\* i < len() is the b indices at positions i*b+1 .. (i+1)*b, and the n mod b positions
\* after len()*b belong to no batch
C7_FloorLength ==
    gen = "ready" =>
        LET n == Len(indices_)
            b == batch_size
        IN /\ ret.call = "__len__" =>
                /\ ret.value[1] * b <= n
                /\ n < (ret.value[1] + 1) * b
           /\ __len__ * b <= n /\ n - __len__ * b = n % b
           /\ \A i \in 0..(__len__ - 1) :
                /\ Len(Window(indices_, i, b)) = b
                /\ Window(indices_, i, b) = SubSeq(indices_, i * b + 1, (i + 1) * b)
                /\ \A q \in (n - (n % b) + 1)..n : q > (i + 1) * b
           /\ (ret.call = "__getitem__" /\ ret.index < __len__) =>
                /\ Len(ret.rows) = b
                /\ ret.outcome = "ok" =>
                    \A k \in DOMAIN ret.value : Len(ret.value[k].data) = b

C7_Witness ==
    /\ gen = "ready" /\ ret.call = "__getitem__" /\ ret.outcome = "ok"
    /\ __len__ >= 1 /\ ret.index = __len__ - 1
    /\ batch_size > 1 /\ Len(indices_) % batch_size # 0
    /\ Len(ret.value[1].data) = batch_size

\* C8: the index order is fixed by the constructor: whatever __len__ / __getitem__
\* calls have been made, indices_ is the order the constructor left, and a request for
\* batch i returns the batch of that order, the same at every request
C8_StatelessIdempotent ==
    gen = "ready" =>
        /\ indices_ = built.indices_
        /\ Len(indices_) = Len(built.selected)
        /\ \A r \in Range(built.selected) : Count(indices_, r) = Count(built.selected, r)
        /\ ret.call = "__getitem__" => ret = Batch(built.indices_, ret.index)

C8_Witness ==
    /\ gen = "ready" /\ ret.call = "__getitem__" /\ ret.outcome = "ok"
    /\ ret.index >= 1 /\ ret.index < __len__
    /\ built.indices_ # built.selected
    /\ indices_ = built.indices_

\* C9 as claimed: every batch slices features, labels and (when given) weights by the
\* one window indices_[i*b:(i+1)*b]; unless sparse is requested every sparse slice,
\* the weights' too, is dense in the batch, and the batch is returned: a pair without
\* weights, a triple with them
C9_AsClaimed ==
    (gen = "ready" /\ ret.call = "__getitem__") =>
        LET window == Window(indices_, ret.index, batch_size)
        IN /\ ret.outcome = "ok"
           /\ Len(ret.value) = IF sample_weight.given THEN 3 ELSE 2
           /\ ret.value[1].data = _safe_indexing(X, window)
           /\ ret.value[2].data = _safe_indexing(y, window)
           /\ sample_weight.given => ret.value[3].data = _safe_indexing(sample_weight.data, window)
           /\ ~sparse => \A k \in DOMAIN ret.value : ~ret.value[k].sparse

\* C10 as claimed: for any sampler, the row sets of batches 0..len()-1 are pairwise
\* disjoint, no row is twice in one batch, and every row is one the sampler selected
C10_AsClaimed ==
    gen = "ready" =>
        \A i, j \in 0..(__len__ - 1) :
            /\ i # j => BatchRows(i) \cap BatchRows(j) = {}
            /\ NoRepeats(Window(indices_, i, batch_size))
            /\ BatchRows(i) \subseteq Range(built.selected)

\* C10, amended: every row of a batch is one the sampler selected; when the sampler
\* selected no index twice, the row sets of batches 0..len()-1 are pairwise disjoint
\* and no row is twice in one batch
C10_DisjointWhenNoRepeats ==
    gen = "ready" =>
        \A i, j \in 0..(__len__ - 1) :
            /\ BatchRows(i) \subseteq Range(built.selected)
            /\ NoRepeats(built.selected) =>
                /\ i # j => BatchRows(i) \cap BatchRows(j) = {}
                /\ NoRepeats(Window(indices_, i, batch_size))

C10_Witness ==
    /\ gen = "ready" /\ NoRepeats(built.selected)
    /\ __len__ >= 2 /\ Len(indices_) > 2
    /\ built.indices_ # built.selected

\* ======================= smoothed bootstrap =======================
\* C11 as claimed: a smoothed duplicate of class c is its donor plus
\* z * shrinkage_[c] * constant * std of class c's rows, where the constant is
\* (4 / ((features + 2) * class_rows))^(1 / (features + 4)) with class_rows the number
\* of rows of class c; a class with a single row yields exact copies of the donor
C11_AsClaimed ==
    (FitOk /\ smoothed_bootstrap) =>
        \A p \in 1..NumNew :
            LET c == ClassOfNew(p)
                rows == flatnonzero(y, c, 1)
                donor == sample_indices_[Len(X) + p] + 1
            IN \A f \in DOMAIN X[donor] :
                LET cell == X_resampled[Len(X) + p][f]
                IN /\ cell.v = X[donor][f].v
                   /\ Len(rows) = 1 => cell = X[donor][f]
                   /\ cell.pert # ZeroPert =>
                        /\ cell.pert[2] = shrinkage_[c]
                        /\ cell.pert[3] = Len(rows)
                        /\ cell.pert[4] = Len(X[donor])
                        /\ cell.pert[5] = VarNum(X, rows, f)
                        /\ cell.pert[6] = Len(rows)

\* what the code does: the same, except that the constant is computed from the row
\* count of the whole input, X.shape[0]
C11_TotalRowCount ==
    (FitOk /\ smoothed_bootstrap) =>
        \A p \in 1..NumNew :
            LET c == ClassOfNew(p)
                rows == flatnonzero(y, c, 1)
                donor == sample_indices_[Len(X) + p] + 1
            IN \A f \in DOMAIN X[donor] :
                LET cell == X_resampled[Len(X) + p][f]
                IN /\ cell.v = X[donor][f].v
                   /\ Len(rows) = 1 => cell = X[donor][f]
                   /\ cell.pert # ZeroPert =>
                        /\ cell.pert[2] = shrinkage_[c]
                        /\ cell.pert[3] = Len(X)
                        /\ cell.pert[4] = Len(X[donor])
                        /\ cell.pert[5] = VarNum(X, rows, f)
                        /\ cell.pert[6] = Len(rows)


\* ======================= fitted state across calls =======================
\* the rows added by a resolved strategy
NumNewOf(strategy) == SumSeq([i \in DOMAIN strategy |-> strategy[i][2]])

\* sample_indices_ is what one call on (A, labels, strategy) alone produces: the input
\* rows in order, then for each class of the strategy as many rows of that class
SampleIndicesOfCall(A, labels, strategy) ==
    /\ Len(sample_indices_) = Len(A) + NumNewOf(strategy)
    /\ \A i \in 1..Len(A) : sample_indices_[i] = i - 1
    /\ \A c \in Classes :
        Cardinality({p \in (Len(A) + 1)..Len(sample_indices_) :
                        /\ sample_indices_[p] + 1 \in DOMAIN labels
                        /\ labels[sample_indices_[p] + 1] = c})
        = SumSeq([i \in DOMAIN strategy |->
                    IF strategy[i][1] = c THEN strategy[i][2] ELSE 0])

\* the over-sampler's sample_indices_ reflects only its most recent successful call
OverSamplerReflectsLastSuccess ==
    IF last_ok.ros.set
    THEN SampleIndicesOfCall(last_ok.ros.X, last_ok.ros.y, last_ok.ros.strategy)
    ELSE sample_indices_ = NotFitted

\* ratio_ of the under-/clean-sampling base reflects only its most recent successful call
RatioReflectsLastSuccess ==
    IF last_ok.base.set
    THEN under.ratio_ = check_ratio(under.ratio, last_ok.base.y, under.sampling_type).value
    ELSE under.ratio_ = NotFittedRatio

\* the data hashes of the under-/clean-sampling base reflect only its most recent
\* successful call
HashesReflectLastSuccess ==
    IF last_ok.base.set
    THEN <<under.X_hash_, under.y_hash_>> = hash_X_y(last_ok.base.X, last_ok.base.y)
    ELSE under.X_hash_ = -1 /\ under.y_hash_ = -1

\* C12 as claimed: after any sequence of fit / fit_resample calls on one sampler
\* instance, the stored fitted state (ratio_ and the data hashes of the under-/clean-
\* sampling bases, sample_indices_ of the over-sampler) reflects only the most recent
\* successful call: it is overwritten, never merged with earlier calls, and a call that
\* raises leaves no partially built state behind.
C12_AsClaimed ==
    /\ OverSamplerReflectsLastSuccess
    /\ RatioReflectsLastSuccess
    /\ HashesReflectLastSuccess

\* what the code does: sample_indices_ and ratio_ reflect the most recent successful
\* call, but the hashes are those of the most recent call that passed input validation,
\* successful or not
C12_ExceptHashes ==
    /\ OverSamplerReflectsLastSuccess
    /\ RatioReflectsLastSuccess

\* a fit that raised in check_ratio after an earlier fit succeeded on other data
C12_FailedFitAfterSuccess ==
    /\ last_call = "fit"
    /\ under.outcome = "ValueError"
    /\ last_ok.base.set
    /\ check_X_y_ok(X)
    /\ <<X, y>> # <<last_ok.base.X, last_ok.base.y>>

\* a fit_resample that raised inside the loop after an earlier one succeeded
C12_FailedResampleAfterSuccess ==
    /\ last_call = "_fit_resample"
    /\ outcome = "TypeError"
    /\ last_ok.ros.set

\* a second successful fit_resample on data of another size
C12_Overwritten ==
    /\ FitOk
    /\ calls = MaxCalls
    /\ prev.outcome = "ok"
    /\ Len(prev.sample_indices_) # Len(sample_indices_)

====
